---- MODULE Spec2Model ----
(***************************************************************************)
(* Model of the semantic code search prototype:                            *)
(*   lucian-rag/index_code.py  (reindex: clear, walk, chunk, embed, insert) *)
(*   lucian-rag/query_code.py  (search: embed the query, $vectorSearch)     *)
(* One reindex process and one search process share the store collection.  *)
(***************************************************************************)
EXTENDS Integers, Sequences, FiniteSets, TLC

(* ------------------------------ bounds -------------------------------- *)
\* files under CODE_ROOT_PATH
MaxFiles == 2
\* reindex runs in one behaviour
MaxRuns == 2
\* documents of the generation found in the store at start
MaxOld == 6

(* ------------------------- program constants -------------------------- *)
\* return [0.1] * 1024
EmbeddingDim == 1024
\* "numCandidates": 100
NumCandidates == 100
\* def search_code(query, limit=5)
DefaultLimit == 5

(* ------------------------------ helpers ------------------------------- *)
Range(s) == {s[i] : i \in DOMAIN s}

Min(a, b) == IF a < b THEN a ELSE b

Take(s, n) == SubSeq(s, 1, Min(n, Len(s)))

Ok(v) == [ok |-> TRUE, val |-> v]

Raise(e) == [ok |-> FALSE, exc |-> e]

(* --------------------------- source files ----------------------------- *)
\* A node of the syntax tree, in ast.walk order: its class, its name and the
\* text of its source span ("" for a node without an extractable span).
Node(kind, name, seg) == [kind |-> kind, name |-> name, seg |-> seg]

Notes == [stem |-> "notes", ext |-> ".txt", valid |-> TRUE, nodes |-> <<>>]

Broken == [stem |-> "broken", ext |-> ".py", valid |-> FALSE, nodes |-> <<>>]

Consts ==
  [stem |-> "consts", ext |-> ".py", valid |-> TRUE,
   nodes |-> <<Node("Module", "", ""), Node("Assign", "", "x = 1")>>]

\* 2 functions and 1 class containing 1 method
Fixture ==
  [stem |-> "fixture", ext |-> ".py", valid |-> TRUE,
   nodes |-> <<Node("Module", "", ""),
               Node("FunctionDef", "f", "def f"),
               Node("AsyncFunctionDef", "g", "async def g"),
               Node("ClassDef", "K", "class K"),
               Node("FunctionDef", "m", "def m")>>]

FileShapes == {Notes, Broken, Consts, Fixture}

Injective(s) == \A i, j \in DOMAIN s : s[i] = s[j] => i = j

\* the directory listings os.walk can yield
Roots ==
  {s \in UNION {[1..n -> FileShapes] : n \in 0..MaxFiles} : Injective(s)}

(* ------------------------------ chunker ------------------------------- *)
\* file.endswith(".py")
endswith_py(file) == file.ext = ".py"

\* os.path.join(root, file)
file_path_of(file) == <<file.stem, file.ext>>

\* source.read(): the text of the file, a str
read(file) == [type |-> "str", file |-> file]

\* ast.parse(text): the Module node of the tree, or SyntaxError
ast_parse(text) ==
  IF text.file.valid
    THEN Ok([type |-> "Module", nodes |-> text.file.nodes])
    ELSE Raise("SyntaxError")

\* ast.walk(tree): every node of the tree, nested ones included
ast_walk(tree) == tree.nodes

\* isinstance(node, (ast.FunctionDef, ast.AsyncFunctionDef, ast.ClassDef))
IsDefinition(node) == node.kind \in {"FunctionDef", "AsyncFunctionDef", "ClassDef"}

\* ast.get_source_segment(source, node) splits `source` into lines: it needs the
\* source text (a str); given any other object it raises TypeError.
get_source_segment(source, node) ==
  IF source.type = "str" THEN Ok(node.seg) ELSE Raise("TypeError")

\* the loop `for node in ast.walk(tree)` of parse_and_chunk_code; the first
\* argument handed to get_source_segment is the tree, as in the source.
RECURSIVE WalkChunks(_, _, _, _)
WalkChunks(file, tree, nodes, chunks) ==
  IF nodes = <<>> THEN Ok(chunks)
  ELSE LET node == Head(nodes) IN
    IF ~IsDefinition(node) THEN WalkChunks(file, tree, Tail(nodes), chunks)
    ELSE LET chunk_text == get_source_segment(tree, node) IN
      IF ~chunk_text.ok THEN chunk_text
      ELSE IF chunk_text.val # ""
        THEN WalkChunks(file, tree, Tail(nodes),
               Append(chunks, [file_path |-> file_path_of(file),
                               type |-> node.kind,
                               name |-> node.name,
                               code |-> chunk_text.val]))
        ELSE WalkChunks(file, tree, Tail(nodes), chunks)

parse_and_chunk_code(file) ==
  LET tree == ast_parse(read(file)) IN
    IF ~tree.ok THEN Ok(<<>>)
    ELSE WalkChunks(file, tree.val, ast_walk(tree.val), <<>>)

(* ------------------------------ embedder ------------------------------ *)
\* the placeholder returns the same vector for every text: [0.1] * 1024
get_embedding(text) == [dim |-> EmbeddingDim, angle |-> 0]

\* the texts the embedding backend rejects (EmbeddingError)
RejectSets == {{}, {"<oversized>", "def f"}}

BackendRejects(text, rejected) == text \in rejected

\* one call of the embedder: the vector, or the backend's error
Embed(text, rejected) ==
  IF BackendRejects(text, rejected) THEN Raise("EmbeddingError")
  ELSE Ok(get_embedding(text))

\* the loop `for chunk in chunks` of main: no handler around get_embedding
RECURSIVE EmbedChunks(_, _, _, _)
EmbedChunks(chunks, documents, gen, rejected) ==
  IF chunks = <<>> THEN Ok(documents)
  ELSE LET chunk == Head(chunks)
           embedding == Embed(chunk.code, rejected) IN
    IF ~embedding.ok THEN embedding
    ELSE EmbedChunks(Tail(chunks),
           Append(documents, [file_path |-> chunk.file_path,
                              type |-> chunk.type,
                              name |-> chunk.name,
                              code |-> chunk.code,
                              embedding |-> embedding.val,
                              gen |-> gen]),
           gen, rejected)

\* the body of the walk for one eligible file: chunk it, embed every chunk
ProcessFile(file, documents, gen, rejected) ==
  LET chunks == parse_and_chunk_code(file) IN
    IF ~chunks.ok THEN chunks
    ELSE EmbedChunks(chunks.val, documents, gen, rejected)

(* -------------------------------- store ------------------------------- *)
\* a delete that removes nothing
delete_many_keeps(coll) == coll

\* collection.delete_many({})
delete_many(coll) == <<>>

\* collection.insert_many(documents)
insert_many(coll, documents) == coll \o documents

\* the guard dropped: insert_many is called whatever the batch
ShouldInsert_always(documents) == TRUE

\* if documents_to_insert:
ShouldInsert(documents) == documents # <<>>

\* len(documents_to_insert)
ReportedCount(documents) == Len(documents)

\* a document of the generation already in the store, written by an earlier
\* deployment (gen 0); the angles give equal and distinct scores
OldAngles == <<0, 50, 0, 25, 50, 25, 0, 25>>

OldDoc(i) ==
  [file_path |-> <<"old", ".py">>, type |-> "FunctionDef", name |-> <<"h", i>>,
   code |-> "def h", embedding |-> [dim |-> EmbeddingDim, angle |-> OldAngles[i]],
   gen |-> 0]

Previous == {[i \in 1..n |-> OldDoc(i)] : n \in 0..MaxOld}

\* vectorSearchScore of a stored vector against the query vector
Score(queryVector, vector) ==
  IF queryVector.angle >= vector.angle
    THEN 100 - (queryVector.angle - vector.angle)
    ELSE 100 - (vector.angle - queryVector.angle)

\* the two knobs confused: the candidate count used as the limit
Pipeline_limit_from_candidates(query_embedding, lim) ==
  [index |-> "vector_index", path |-> "embedding",
   queryVector |-> query_embedding,
   numCandidates |-> NumCandidates, limit |-> NumCandidates]

\* the pipeline search_code builds
Pipeline(query_embedding, lim) ==
  [index |-> "vector_index", path |-> "embedding",
   queryVector |-> query_embedding,
   numCandidates |-> NumCandidates, limit |-> lim]

\* the orders the store may rank the documents S of coll in: by score,
\* descending; documents of equal score in any order
RECURSIVE Rankings(_, _, _)
Rankings(coll, S, queryVector) ==
  IF S = {} THEN {<<>>}
  ELSE LET best == {i \in S : \A j \in S :
                      Score(queryVector, coll[j].embedding)
                        <= Score(queryVector, coll[i].embedding)}
       IN UNION {{<<i>> \o r : r \in Rankings(coll, S \ {i}, queryVector)}
                  : i \in best}

\* the $project stage: _id and embedding dropped, the score added
Project(doc, queryVector) ==
  [file_path |-> doc.file_path, name |-> doc.name, type |-> doc.type,
   code |-> doc.code, score |-> Score(queryVector, doc.embedding),
   gen |-> doc.gen]

\* list(collection.aggregate(pipeline)): the answers the store may give
aggregate(coll, pipeline) ==
  {LET top == Take(Take(r, pipeline.numCandidates), pipeline.limit)
   IN [k \in DOMAIN top |-> Project(coll[top[k]], pipeline.queryVector)]
     : r \in Rankings(coll, DOMAIN coll, pipeline.queryVector)}

\* the arguments of search_code
Queries == {"how is auth handled", "<oversized>"}

Limits == {1, DefaultLimit, NumCandidates + 1}

(* ------------------------------- state -------------------------------- *)
VARIABLES
  root,                 \* the files under CODE_ROOT_PATH, in walk order
  rejected,             \* the texts the embedding backend rejects
  previous,             \* the generation in the store before the first run
  collection,           \* the store's collection
  ipc,                  \* where index_code.main is
  client,               \* main's MongoClient: "none", "open" or "closed"
  documents_to_insert,
  walk_pos,             \* the next entry of the walk
  runs,                 \* reindex runs started
  counts,               \* the count each completed run reported
  report,               \* the last line main printed about the result
  insert_batches,       \* the batches this run handed to insert_many
  idx_error,            \* the exception that ended this run, or "none"
  chunked,              \* the files this run chunked, with the chunker's result
  cleared,              \* this run's delete_many has returned
  spc,                  \* where query_code.search_code is
  s_client,             \* search_code's MongoClient
  query,
  limit,
  pipeline,             \* the pipeline handed to aggregate, or <<>>
  results,              \* what search_code returned
  s_error,              \* the exception that ended this search, or "none"
  seen_ipc              \* where the reindex was when the store answered

ivars == <<collection, ipc, client, documents_to_insert, walk_pos, runs, counts,
           report, insert_batches, idx_error, chunked, cleared>>

svars == <<spc, s_client, query, limit, pipeline, results, s_error, seen_ipc>>

env == <<root, rejected, previous>>

vars == <<root, rejected, previous, collection, ipc, client, documents_to_insert,
          walk_pos, runs, counts, report, insert_batches, idx_error, chunked,
          cleared, spc, s_client, query, limit, pipeline, results, s_error, seen_ipc>>

Init ==
  /\ root \in Roots
  /\ rejected \in RejectSets
  /\ previous \in Previous
  /\ collection = previous
  /\ ipc = "idle"
  /\ client = "none"
  /\ documents_to_insert = <<>>
  /\ walk_pos = 1
  /\ runs = 0
  /\ counts = <<>>
  /\ report = "none"
  /\ insert_batches = <<>>
  /\ idx_error = "none"
  /\ chunked = <<>>
  /\ cleared = FALSE
  /\ spc = "idle"
  /\ s_client = "none"
  /\ query = "none"
  /\ limit = DefaultLimit
  /\ pipeline = <<>>
  /\ results = <<>>
  /\ s_error = "none"
  /\ seen_ipc = "none"

IdxTerminal == ipc \in {"done", "aborted"}

SearchTerminal == spc \in {"done", "aborted"}

(* ------------------------- index_code.main ---------------------------- *)
\* client = MongoClient(MONGO_URI); db = ...; collection = ...
IdxConnect ==
  /\ ipc = "idle" \/ IdxTerminal
  /\ runs < MaxRuns
  /\ runs' = runs + 1
  /\ client' = "open"
  /\ ipc' = "connected"
  /\ documents_to_insert' = <<>>
  /\ walk_pos' = 1
  /\ report' = "none"
  /\ insert_batches' = <<>>
  /\ idx_error' = "none"
  /\ chunked' = <<>>
  /\ cleared' = FALSE
  /\ UNCHANGED <<collection, counts>>
  /\ UNCHANGED <<env, svars>>

\* an exception leaves main: nothing after the raising statement runs
IdxAbort(exc) ==
  /\ ipc' = "aborted"
  /\ idx_error' = exc
  /\ UNCHANGED <<client, runs, counts, report>>

\* collection.delete_many({}); documents_to_insert = []
IdxClear ==
  /\ ipc = "connected"
  /\ \/ /\ collection' = delete_many(collection)
        /\ documents_to_insert' = <<>>
        /\ ipc' = "walking"
        /\ cleared' = TRUE
        /\ UNCHANGED <<client, runs, counts, report, idx_error>>
     \/ /\ IdxAbort("StoreError")
        /\ UNCHANGED <<collection, documents_to_insert, cleared>>
  /\ UNCHANGED <<walk_pos, insert_batches, chunked>>
  /\ UNCHANGED <<env, svars>>

\* one entry of `for file in files`
IdxWalkFile ==
  /\ ipc = "walking"
  /\ walk_pos <= Len(root)
  /\ LET file == root[walk_pos] IN
       IF ~endswith_py(file)
         THEN /\ walk_pos' = walk_pos + 1
              /\ UNCHANGED <<ipc, client, documents_to_insert, runs, counts,
                             report, idx_error, chunked>>
         ELSE LET r == ProcessFile(file, documents_to_insert, runs, rejected) IN
              /\ chunked' = Append(chunked, [file |-> file,
                                             result |-> parse_and_chunk_code(file)])
              /\ IF r.ok
                   THEN /\ documents_to_insert' = r.val
                        /\ walk_pos' = walk_pos + 1
                        /\ UNCHANGED <<ipc, client, runs, counts, report, idx_error>>
                   ELSE /\ IdxAbort(r.exc)
                        /\ UNCHANGED <<documents_to_insert, walk_pos>>
  /\ UNCHANGED <<collection, insert_batches, cleared>>
  /\ UNCHANGED <<env, svars>>

\* after the walk: insert_many and the report, then client.close()
IdxFinish ==
  /\ ipc = "walking"
  /\ walk_pos > Len(root)
  /\ IF ShouldInsert(documents_to_insert)
       THEN /\ insert_batches' = Append(insert_batches, documents_to_insert)
            /\ \E stored \in BOOLEAN :
                 IF stored
                   THEN /\ collection' = insert_many(collection, documents_to_insert)
                        /\ report' = "Indexed code chunks."
                        /\ counts' = Append(counts, ReportedCount(documents_to_insert))
                        /\ client' = "closed"
                        /\ ipc' = "done"
                        /\ UNCHANGED <<runs, idx_error>>
                   ELSE /\ IdxAbort("StoreError")
                        /\ UNCHANGED collection
       ELSE /\ report' = "No code chunks were indexed."
            /\ counts' = Append(counts, 0)
            /\ client' = "closed"
            /\ ipc' = "done"
            /\ UNCHANGED <<collection, insert_batches, runs, idx_error>>
  /\ UNCHANGED <<documents_to_insert, walk_pos, chunked, cleared>>
  /\ UNCHANGED <<env, svars>>

(* ----------------------- query_code.search_code ----------------------- *)
\* client = MongoClient(MONGO_URI); db = ...; collection = ...
SearchConnect ==
  /\ spc = "idle" \/ SearchTerminal
  /\ \E q \in Queries, lim \in Limits :
       /\ query' = q
       /\ limit' = lim
  /\ s_client' = "open"
  /\ spc' = "connected"
  /\ pipeline' = <<>>
  /\ results' = <<>>
  /\ s_error' = "none"
  /\ seen_ipc' = "none"
  /\ UNCHANGED <<env, ivars>>

\* query_embedding = get_embedding(query); pipeline = [...]
SearchEmbed ==
  /\ spc = "connected"
  /\ LET query_embedding == Embed(query, rejected) IN
       IF query_embedding.ok
         THEN /\ pipeline' = Pipeline(query_embedding.val, limit)
              /\ spc' = "ready"
              /\ UNCHANGED s_error
         ELSE /\ spc' = "aborted"
              /\ s_error' = query_embedding.exc
              /\ UNCHANGED pipeline
  /\ UNCHANGED <<s_client, query, limit, results, seen_ipc>>
  /\ UNCHANGED <<env, ivars>>

\* results = list(collection.aggregate(pipeline)); client.close(); return results
SearchAggregate ==
  /\ spc = "ready"
  /\ seen_ipc' = ipc
  /\ \/ /\ results' \in aggregate(collection, pipeline)
        /\ s_client' = "closed"
        /\ spc' = "done"
        /\ UNCHANGED s_error
     \/ /\ spc' = "aborted"
        /\ s_error' = "StoreError"
        /\ UNCHANGED <<results, s_client>>
  /\ UNCHANGED <<query, limit, pipeline>>
  /\ UNCHANGED <<env, ivars>>

Next ==
  \/ IdxConnect
  \/ IdxClear
  \/ IdxWalkFile
  \/ IdxFinish
  \/ SearchConnect
  \/ SearchEmbed
  \/ SearchAggregate

Spec == Init /\ [][Next]_vars

(* ------------------------------ properties ---------------------------- *)
\* what the chunker's contract expects of a file: one chunk per definition
DefinitionCount(file) ==
  Cardinality({i \in DOMAIN file.nodes : IsDefinition(file.nodes[i])})

\* the (file, unit, text) of every definition of every eligible, valid file
ExpectedChunks ==
  {<<file_path_of(root[i]), root[i].nodes[k].name, root[i].nodes[k].seg>> :
     <<i, k>> \in {p \in (DOMAIN root) \X (1..5) :
                     /\ endswith_py(root[p[1]])
                     /\ root[p[1]].valid
                     /\ p[2] \in DOMAIN root[p[1]].nodes
                     /\ IsDefinition(root[p[1]].nodes[p[2]])}}

StoredChunks == {<<d.file_path, d.name, d.code>> : d \in Range(collection)}

HasBrokenFile == \E i \in DOMAIN root : endswith_py(root[i]) /\ ~root[i].valid

\* C1: whenever a reindex run or a search has ended, by success or by any
\* error, its store client has been closed.
C1_ConnectionReleased ==
  /\ IdxTerminal => client = "closed"
  /\ SearchTerminal => s_client = "closed"

C3_OneChunkPerDefinition ==
  \A i \in DOMAIN chunked :
    chunked[i].file.valid =>
      /\ chunked[i].result.ok
      /\ Len(chunked[i].result.val) = DefinitionCount(chunked[i].file)

\* C4: a run whose directory holds a syntactically invalid file (the store and
\* the embedder not failing) completes, and the collection then holds every
\* chunk of every other eligible file.
C4_SiblingsIndexed ==
  (IdxTerminal /\ idx_error # "StoreError" /\ rejected = {} /\ HasBrokenFile) =>
    /\ ipc = "done"
    /\ StoredChunks = ExpectedChunks

C6_CandidatesCoverLimit ==
  pipeline # <<>> => pipeline.numCandidates >= pipeline.limit

\* C7 as stated: a search returns at most limit results, strictly descending
\* by score.
C7_StrictlyDescending ==
  spc = "done" =>
    /\ Len(results) <= limit
    /\ \A i, j \in DOMAIN results : i < j => results[i].score > results[j].score

\* C7 as amended: a search returns at most limit results (at most 5 by
\* default), and no result has a higher score than one before it; results of
\* equal score come in the order the store chose.
C7_AtMostLimitDescending ==
  spc = "done" =>
    /\ Len(results) <= limit
    /\ limit = DefaultLimit => Len(results) <= 5
    /\ \A i, j \in DOMAIN results : i < j => results[i].score >= results[j].score

\* a default-limit search over a larger collection, cut to the limit, with
\* both a tie and a strict drop among its results
C7_Witness ==
  /\ spc = "done"
  /\ limit = DefaultLimit
  /\ seen_ipc = "idle"
  /\ Len(collection) > limit
  /\ Len(results) = limit
  /\ \E i, j \in DOMAIN results : i < j /\ results[i].score = results[j].score
  /\ \E i, j \in DOMAIN results : i < j /\ results[i].score > results[j].score

\* no eligible file of the directory holds a definition
NoDefinitions ==
  \A i \in DOMAIN root :
    (endswith_py(root[i]) /\ root[i].valid) => DefinitionCount(root[i]) = 0

\* C8: a run over a directory that yields no chunk (the store not failing)
\* completes with the collection cleared, insert_many never called, the count 0
\* and the explicit report that nothing was indexed.
C8_ZeroChunks ==
  (IdxTerminal /\ idx_error # "StoreError" /\ NoDefinitions) =>
    /\ ipc = "done"
    /\ idx_error = "none"
    /\ collection = <<>>
    /\ insert_batches = <<>>
    /\ counts[Len(counts)] = 0
    /\ report = "No code chunks were indexed."

\* a completed run over the empty directory that cleared a previous generation
C8_Witness ==
  /\ ipc = "done"
  /\ root = <<>>
  /\ previous # <<>>

\* C9: a search answered with an empty result after the clear of a run, though
\* the previous generation was non-empty and the directory holds definitions,
\* fell between the clear and the bulk insert: the run (the store and the
\* embedder not failing) goes on to insert the new generation.
C9_WindowClosedByInsert ==
  (/\ spc = "done" /\ seen_ipc = "walking" /\ results = <<>>
   /\ previous # <<>> /\ ExpectedChunks # {}
   /\ runs = 1 /\ IdxTerminal /\ idx_error # "StoreError" /\ rejected = {}) =>
    /\ Len(insert_batches) = 1
    /\ collection # <<>>
    /\ \A d \in Range(collection) : d.gen = runs

\* C10: within a run no file is chunked before the clear, insert_many is called
\* at most once and only after the whole walk, and a run that aborts after the
\* clear leaves the collection empty.
C10_AbortLeavesEmpty ==
  /\ chunked # <<>> => cleared
  /\ Len(insert_batches) <= 1
  /\ insert_batches # <<>> => walk_pos > Len(root)
  /\ (ipc = "aborted" /\ cleared) => collection = <<>>

\* a run aborted while chunking, after it cleared a previous generation
C10_Witness ==
  /\ ipc = "aborted"
  /\ cleared
  /\ chunked # <<>>
  /\ previous # <<>>

====
